---- MODULE Spec2Model ----
(***************************************************************************)
(* A model of the TLS extension decoder of src/src/tls_extensions.rs.      *)
(*                                                                         *)
(* The decoder is a set of pure functions over a borrowed byte buffer.     *)
(* A slice &[u8] is modelled as [off, b]: its offset in the caller's       *)
(* buffer and its bytes.  An IResult is one of                              *)
(*     [k |-> "Ok", rest, v]     Ok((rest, v))                              *)
(*     [k |-> "Incomplete"]      Err(Err::Incomplete(_))                    *)
(*     [k |-> "Error", kind]     Err(Err::Error((_, ErrorKind::kind)))      *)
(* The Needed payload of Incomplete and the input position of an Error     *)
(* are not modelled.  The decoder never builds an Err::Failure.            *)
(*                                                                         *)
(* A TlsExtension value is [tag, n, s]: the variant's name, its scalar     *)
(* fields in order (n) and its borrowed slices in order (s).               *)
(***************************************************************************)
EXTENDS Integers, Sequences, FiniteSets, TLC

VARIABLES input, pc, out

vars == <<input, pc, out>>

(***************************************************************************)
(* Slices and results                                                      *)
(***************************************************************************)
Slice(off, b) == [off |-> off, b |-> b]

SLen(i) == Len(i.b)

\* &i[n..]
Drop(i, n) == [off |-> i.off + n, b |-> SubSeq(i.b, n + 1, Len(i.b))]

\* &i[..n]
Keep(i, n) == [off |-> i.off, b |-> SubSeq(i.b, 1, n)]

Ok(rest, v) == [k |-> "Ok", rest |-> rest, v |-> v]

Incomplete == [k |-> "Incomplete"]

Error(kind) == [k |-> "Error", kind |-> kind]

IsOk(r) == r.k = "Ok"

Ext(tag, n, s) == [tag |-> tag, n |-> n, s |-> s]

(***************************************************************************)
(* nom combinators, as the decoder uses them (streaming number and take    *)
(* parsers: a short input is Incomplete, not an error)                     *)
(***************************************************************************)
be_u8(i) ==
    IF SLen(i) < 1 THEN Incomplete ELSE Ok(Drop(i, 1), i.b[1])

be_u16(i) ==
    IF SLen(i) < 2 THEN Incomplete ELSE Ok(Drop(i, 2), i.b[1] * 256 + i.b[2])

be_u32(i) ==
    IF SLen(i) < 4 THEN Incomplete
    ELSE Ok(Drop(i, 4),
            ((i.b[1] * 256 + i.b[2]) * 256 + i.b[3]) * 256 + i.b[4])

take(count, i) ==
    IF SLen(i) < count THEN Incomplete ELSE Ok(Drop(i, count), Keep(i, count))

\* length_data(be_u8), length_data(be_u16): read the length, then take that
\* many bytes
length_data_be_u8(i) ==
    LET r == be_u8(i) IN IF ~IsOk(r) THEN r ELSE take(r.v, r.rest)

length_data_be_u16(i) ==
    LET r == be_u16(i) IN IF ~IsOk(r) THEN r ELSE take(r.v, r.rest)

\* map(p, g): r is p's result and gv is g of r's output (read only when r
\* is Ok)
map(r, gv) ==
    IF ~IsOk(r) THEN r ELSE Ok(r.rest, gv)

\* map_parser(p, q): r is p's result and r2 is q's result on r's output (read
\* only when r is Ok); what q leaves unconsumed is dropped
map_parser(r, r2) ==
    IF ~IsOk(r) THEN r
    ELSE IF ~IsOk(r2) THEN r2
    ELSE Ok(r.rest, r2.v)

\* complete(p): Incomplete becomes Error(Complete)
complete(r) ==
    IF r.k = "Incomplete" THEN Error("Complete") ELSE r

\* opt(p) on input i: an Error becomes Ok(None); None is <<>>, Some(x) is
\* <<x>>
opt(r, i) ==
    IF IsOk(r) THEN Ok(r.rest, <<r.v>>)
    ELSE IF r.k = "Error" THEN Ok(i, <<>>)
    ELSE r

\* one turn of many0's loop on input i, r being the element parser's result
\* and again the loop on what r left: an Error ends the list with success,
\* Incomplete is passed on, an element that consumed nothing is an Error
many0_step(i, acc, r, again) ==
    IF r.k = "Error" THEN Ok(i, acc)
    ELSE IF ~IsOk(r) THEN r
    ELSE IF SLen(r.rest) = SLen(i) THEN Error("Many0")
    ELSE again

\* u16 & u16
RECURSIVE BitAnd(_, _)
BitAnd(a, b) ==
    IF a = 0 \/ b = 0 THEN 0
    ELSE (a % 2) * (b % 2) + 2 * BitAnd(a \div 2, b \div 2)

(***************************************************************************)
(* Type registry (newtype_enum! TlsExtensionType), the codes the           *)
(* projection From<&TlsExtension> names                                    *)
(***************************************************************************)
ServerName == 0

MaxFragmentLength == 1

StatusRequest == 5

SupportedGroups == 10

EcPointFormats == 11

SignatureAlgorithms == 13

Heartbeat == 15

ApplicationLayerProtocolNegotiation == 16

SignedCertificateTimestamp == 18

Padding == 21

EncryptThenMac == 22

ExtendedMasterSecret == 23

RecordSizeLimit == 28

SessionTicketTLS == 35

KeyShareOld == 40

PreSharedKey == 41

EarlyData == 42

SupportedVersions == 43

Cookie == 44

PskExchangeModes == 45

OidFilters == 48

PostHandshakeAuth == 49

KeyShare == 51

\* 0x3374
NextProtocolNegotiation == 13172

\* 0xfafa
Grease == 64250

\* 0xff01
RenegotiationInfo == 65281

\* 0xffce
EncryptedServerName == 65486

\* impl From<&TlsExtension> for TlsExtensionType
TypeOf(v) ==
    CASE v.tag = "SNI" -> ServerName
      [] v.tag = "MaxFragmentLength" -> MaxFragmentLength
      [] v.tag = "StatusRequest" -> StatusRequest
      [] v.tag = "EllipticCurves" -> SupportedGroups
      [] v.tag = "EcPointFormats" -> EcPointFormats
      [] v.tag = "SignatureAlgorithms" -> SignatureAlgorithms
      [] v.tag = "SessionTicket" -> SessionTicketTLS
      [] v.tag = "RecordSizeLimit" -> RecordSizeLimit
      [] v.tag = "KeyShareOld" -> KeyShareOld
      [] v.tag = "KeyShare" -> KeyShare
      [] v.tag = "PreSharedKey" -> PreSharedKey
      [] v.tag = "EarlyData" -> EarlyData
      [] v.tag = "SupportedVersions" -> SupportedVersions
      [] v.tag = "Cookie" -> Cookie
      [] v.tag = "PskExchangeModes" -> PskExchangeModes
      [] v.tag = "Heartbeat" -> Heartbeat
      [] v.tag = "ALPN" -> ApplicationLayerProtocolNegotiation
      [] v.tag = "SignedCertificateTimestamp" -> SignedCertificateTimestamp
      [] v.tag = "Padding" -> Padding
      [] v.tag = "EncryptThenMac" -> EncryptThenMac
      [] v.tag = "ExtendedMasterSecret" -> ExtendedMasterSecret
      [] v.tag = "OidFilters" -> OidFilters
      [] v.tag = "PostHandshakeAuth" -> PostHandshakeAuth
      [] v.tag = "NextProtocolNegotiation" -> NextProtocolNegotiation
      [] v.tag = "RenegotiationInfo" -> RenegotiationInfo
      [] v.tag = "EncryptedServerName" -> EncryptedServerName
      [] v.tag = "Grease" -> Grease
      [] v.tag = "Unknown" -> v.n[1]

(***************************************************************************)
(* Collaborators of crate::tls and crate::tls_ec, whose code is not in     *)
(* src/: modelled from the specification                                   *)
(***************************************************************************)
\* parseVersionList: big-endian u16 values in wire order; an odd length is a
\* verification failure
RECURSIVE Versions(_)
Versions(b) ==
    IF Len(b) < 2 THEN <<>>
    ELSE <<b[1] * 256 + b[2]>> \o Versions(SubSeq(b, 3, Len(b)))

parse_tls_versions(i) ==
    IF SLen(i) % 2 = 1 THEN Error("Verify")
    ELSE Ok(Drop(i, SLen(i)), Versions(i.b))

\* parseNamedGroup: one u16 group code
NamedGroup_parse(i) == be_u16(i)

\* parseNamedGroupList: the u16 group codes of the list, in wire order
RECURSIVE parse_named_groups_loop(_, _)
parse_named_groups_loop(i, acc) ==
    LET r == complete(NamedGroup_parse(i)) IN
    many0_step(i, acc, r, parse_named_groups_loop(r.rest, Append(acc, r.v)))

parse_named_groups(i) == parse_named_groups_loop(i, <<>>)

(***************************************************************************)
(* Per-type content decoders                                               *)
(***************************************************************************)
\* the first components and the second components of a list of pairs
Firsts(l) == [k \in 1..Len(l) |-> l[k][1]]

Seconds(l) == [k \in 1..Len(l) |-> l[k][2]]

\* SNIType::parse is be_u8 (derive Nom on a u8 newtype)
parse_tls_extension_sni_hostname(i) ==
    LET t == be_u8(i) IN
    IF ~IsOk(t) THEN t
    ELSE LET v == length_data_be_u16(t.rest) IN
         IF ~IsOk(v) THEN v ELSE Ok(v.rest, <<t.v, v.v>>)

\* many0(complete(parse_tls_extension_sni_hostname))
RECURSIVE many0_sni_hostname(_, _)
many0_sni_hostname(i, acc) ==
    LET r == complete(parse_tls_extension_sni_hostname(i)) IN
    many0_step(i, acc, r, many0_sni_hostname(r.rest, Append(acc, r.v)))

parse_tls_extension_sni_content(i) ==
    LET list_len == be_u16(i) IN
    IF ~IsOk(list_len) THEN list_len
    ELSE LET d == take(list_len.v, list_len.rest)
             v == map_parser(d, many0_sni_hostname(d.v, <<>>))
         IN  map(v, Ext("SNI", Firsts(v.v), Seconds(v.v)))

parse_tls_extension_max_fragment_length_content(i) ==
    LET x == be_u8(i) IN map(x, Ext("MaxFragmentLength", <<x.v>>, <<>>))

parse_tls_extension_status_request_content(i, ext_len) ==
    IF ext_len = 0 THEN Ok(i, Ext("StatusRequest", <<>>, <<>>))
    ELSE LET status_type == be_u8(i) IN
         IF ~IsOk(status_type) THEN status_type
         ELSE LET request == take(ext_len - 1, status_type.rest) IN
              map(request,
                  Ext("StatusRequest", <<status_type.v>>, <<request.v>>))

parse_tls_extension_elliptic_curves_content(i) ==
    LET d == length_data_be_u16(i)
        l == parse_named_groups(d.v)
    IN  map_parser(d, map(l, Ext("EllipticCurves", l.v, <<>>)))

parse_tls_extension_ec_point_formats_content(i) ==
    LET d == length_data_be_u8(i) IN
    map(d, Ext("EcPointFormats", <<>>, <<d.v>>))

\* many0(complete(be_u16))
RECURSIVE many0_be_u16(_, _)
many0_be_u16(i, acc) ==
    LET r == complete(be_u16(i)) IN
    many0_step(i, acc, r, many0_be_u16(r.rest, Append(acc, r.v)))

parse_tls_extension_signature_algorithms_content(i) ==
    LET d == length_data_be_u16(i)
        l == map_parser(d, many0_be_u16(d.v, <<>>))
    IN  map(l, Ext("SignatureAlgorithms", l.v, <<>>))

parse_tls_extension_heartbeat_content(i) ==
    LET x == be_u8(i) IN map(x, Ext("Heartbeat", <<x.v>>, <<>>))

parse_protocol_name(i) == length_data_be_u8(i)

\* many0(complete(parse_protocol_name))
RECURSIVE many0_protocol_name(_, _)
many0_protocol_name(i, acc) ==
    LET r == complete(parse_protocol_name(i)) IN
    many0_step(i, acc, r, many0_protocol_name(r.rest, Append(acc, r.v)))

parse_tls_extension_alpn_content(i) ==
    LET d == length_data_be_u16(i)
        v == map_parser(d, many0_protocol_name(d.v, <<>>))
    IN  map(v, Ext("ALPN", <<>>, v.v))

parse_tls_extension_padding_content(i, ext_len) ==
    LET d == take(ext_len, i) IN map(d, Ext("Padding", <<>>, <<d.v>>))

parse_tls_extension_signed_certificate_timestamp_content(i) ==
    LET o == opt(complete(length_data_be_u16(i)), i) IN
    map(o, Ext("SignedCertificateTimestamp", <<>>, o.v))

parse_tls_extension_encrypt_then_mac_content(i, ext_len) ==
    IF ext_len # 0 THEN Error("Verify")
    ELSE Ok(i, Ext("EncryptThenMac", <<>>, <<>>))

parse_tls_extension_extended_master_secret_content(i, ext_len) ==
    IF ext_len # 0 THEN Error("Verify")
    ELSE Ok(i, Ext("ExtendedMasterSecret", <<>>, <<>>))

parse_tls_extension_record_size_limit(i) ==
    LET x == be_u16(i) IN map(x, Ext("RecordSizeLimit", <<x.v>>, <<>>))

parse_tls_extension_session_ticket_content(i, ext_len) ==
    LET d == take(ext_len, i) IN map(d, Ext("SessionTicket", <<>>, <<d.v>>))

parse_tls_extension_key_share_old_content(i, ext_len) ==
    LET d == take(ext_len, i) IN map(d, Ext("KeyShareOld", <<>>, <<d.v>>))

\* a faulty variant of parse_tls_extension_key_share_content: the variant of the
\* decoder above it
key_share_content_as_old(i, ext_len) ==
    LET d == take(ext_len, i) IN map(d, Ext("KeyShareOld", <<>>, <<d.v>>))

parse_tls_extension_key_share_content(i, ext_len) ==
    LET d == take(ext_len, i) IN map(d, Ext("KeyShare", <<>>, <<d.v>>))

parse_tls_extension_pre_shared_key_content(i, ext_len) ==
    LET d == take(ext_len, i) IN map(d, Ext("PreSharedKey", <<>>, <<d.v>>))

\* cond(ext_len > 0, be_u32): None (<<>>) without running be_u32 when false
parse_tls_extension_early_data_content(i, ext_len) ==
    IF ext_len > 0
    THEN LET x == be_u32(i) IN map(x, Ext("EarlyData", <<x.v>>, <<>>))
    ELSE Ok(i, Ext("EarlyData", <<>>, <<>>))

\* a faulty variant of parse_tls_extension_supported_versions_content: no branch
\* for a declared length of 2
supported_versions_content_list_only(i, ext_len) ==
    LET skip == be_u8(i) IN
    IF ~IsOk(skip) THEN skip
    ELSE IF ext_len = 0 THEN Error("Verify")
    ELSE LET d == take(ext_len - 1, skip.rest)
             l == map_parser(d, parse_tls_versions(d.v))
         IN  map(l, Ext("SupportedVersions", l.v, <<>>))

parse_tls_extension_supported_versions_content(i, ext_len) ==
    IF ext_len = 2
    THEN LET x == be_u16(i) IN map(x, Ext("SupportedVersions", <<x.v>>, <<>>))
    ELSE LET skip == be_u8(i) IN
         IF ~IsOk(skip) THEN skip
         ELSE IF ext_len = 0 THEN Error("Verify")
         ELSE LET d == take(ext_len - 1, skip.rest)
                  l == map_parser(d, parse_tls_versions(d.v))
              IN  map(l, Ext("SupportedVersions", l.v, <<>>))

parse_tls_extension_cookie_content(i, ext_len) ==
    LET d == take(ext_len, i) IN map(d, Ext("Cookie", <<>>, <<d.v>>))

\* v.to_vec(): the mode bytes are copied out of the buffer
parse_tls_extension_psk_key_exchange_modes_content(i) ==
    LET v == length_data_be_u8(i) IN
    map(v, Ext("PskExchangeModes", v.v.b, <<>>))

\* a faulty variant of parse_tls_extension_npn_content: the declared length is not
\* looked at
npn_content_any_length(i, ext_len) ==
    Ok(i, Ext("NextProtocolNegotiation", <<>>, <<>>))

parse_tls_extension_npn_content(i, ext_len) ==
    IF ext_len # 0 THEN Error("Verify")
    ELSE Ok(i, Ext("NextProtocolNegotiation", <<>>, <<>>))

parse_tls_extension_renegotiation_info_content(i) ==
    LET d == length_data_be_u8(i) IN
    map(d, Ext("RenegotiationInfo", <<>>, <<d.v>>))

parse_tls_extension_encrypted_server_name(i) ==
    LET ciphersuite == be_u16(i) IN
    IF ~IsOk(ciphersuite) THEN ciphersuite
    ELSE LET group == NamedGroup_parse(ciphersuite.rest) IN
    IF ~IsOk(group) THEN group
    ELSE LET key_share == length_data_be_u16(group.rest) IN
    IF ~IsOk(key_share) THEN key_share
    ELSE LET record_digest == length_data_be_u16(key_share.rest) IN
    IF ~IsOk(record_digest) THEN record_digest
    ELSE LET encrypted_sni == length_data_be_u16(record_digest.rest) IN
    IF ~IsOk(encrypted_sni) THEN encrypted_sni
    ELSE Ok(encrypted_sni.rest,
            Ext("EncryptedServerName", <<ciphersuite.v, group.v>>,
                <<key_share.v, record_digest.v, encrypted_sni.v>>))

parse_tls_oid_filter(i) ==
    LET cert_ext_oid == length_data_be_u8(i) IN
    IF ~IsOk(cert_ext_oid) THEN cert_ext_oid
    ELSE LET cert_ext_val == length_data_be_u16(cert_ext_oid.rest) IN
         IF ~IsOk(cert_ext_val) THEN cert_ext_val
         ELSE Ok(cert_ext_val.rest, <<cert_ext_oid.v, cert_ext_val.v>>)

\* many0(complete(parse_tls_oid_filter))
RECURSIVE many0_oid_filter(_, _)
many0_oid_filter(i, acc) ==
    LET r == complete(parse_tls_oid_filter(i)) IN
    many0_step(i, acc, r, many0_oid_filter(r.rest, Append(acc, r.v)))

\* a list of lists, joined: the filters' slices in order (oid, value, oid,
\* value, ...)
RECURSIVE Flatten(_)
Flatten(l) == IF l = <<>> THEN <<>> ELSE Head(l) \o Flatten(Tail(l))

parse_tls_extension_oid_filters(i) ==
    LET d == length_data_be_u16(i)
        v == map_parser(d, many0_oid_filter(d.v, <<>>))
    IN  map(v, Ext("OidFilters", <<>>, Flatten(v.v)))

parse_tls_extension_post_handshake_auth_content(i, ext_len) ==
    IF ext_len # 0 THEN Error("Verify")
    ELSE Ok(i, Ext("PostHandshakeAuth", <<>>, <<>>))

(***************************************************************************)
(* Dispatch, envelope parser, sequence parser                              *)
(***************************************************************************)
\* a faulty variant of is_grease: only the low byte is tested
is_grease_low_byte(ext_type) == BitAnd(ext_type, 15) = 10

\* ext_type & 0x0f0f == 0x0a0a
is_grease(ext_type) == BitAnd(ext_type, 3855) = 2570

\* a faulty variant of unknown_content: an empty body is refused
unknown_content_nonempty(i, ext_type, ext_len) ==
    IF ext_len = 0 THEN Error("Verify")
    ELSE LET ext_data == take(ext_len, i) IN
         map(ext_data, Ext("Unknown", <<ext_type>>, <<ext_data.v>>))

\* the match's last arm
unknown_content(i, ext_type, ext_len) ==
    LET ext_data == take(ext_len, i) IN
    map(ext_data, Ext("Unknown", <<ext_type>>, <<ext_data.v>>))

parse_tls_extension_with_type(i, ext_type, ext_len) ==
    IF is_grease(ext_type)
    THEN LET d == take(ext_len, i) IN
         map(d, Ext("Grease", <<ext_type>>, <<d.v>>))
    ELSE CASE ext_type = 0 -> parse_tls_extension_sni_content(i)
      [] ext_type = 1 -> parse_tls_extension_max_fragment_length_content(i)
      [] ext_type = 5 -> parse_tls_extension_status_request_content(i, ext_len)
      [] ext_type = 10 -> parse_tls_extension_elliptic_curves_content(i)
      [] ext_type = 11 -> parse_tls_extension_ec_point_formats_content(i)
      [] ext_type = 13 -> parse_tls_extension_signature_algorithms_content(i)
      [] ext_type = 15 -> parse_tls_extension_heartbeat_content(i)
      [] ext_type = 16 -> parse_tls_extension_alpn_content(i)
      [] ext_type = 18 ->
            parse_tls_extension_signed_certificate_timestamp_content(i)
      [] ext_type = 21 -> parse_tls_extension_padding_content(i, ext_len)
      [] ext_type = 22 ->
            parse_tls_extension_encrypt_then_mac_content(i, ext_len)
      [] ext_type = 23 ->
            parse_tls_extension_extended_master_secret_content(i, ext_len)
      [] ext_type = 28 -> parse_tls_extension_record_size_limit(i)
      [] ext_type = 35 -> parse_tls_extension_session_ticket_content(i, ext_len)
      [] ext_type = 40 -> parse_tls_extension_key_share_old_content(i, ext_len)
      [] ext_type = 41 -> parse_tls_extension_pre_shared_key_content(i, ext_len)
      [] ext_type = 42 -> parse_tls_extension_early_data_content(i, ext_len)
      [] ext_type = 43 ->
            parse_tls_extension_supported_versions_content(i, ext_len)
      [] ext_type = 44 -> parse_tls_extension_cookie_content(i, ext_len)
      [] ext_type = 45 -> parse_tls_extension_psk_key_exchange_modes_content(i)
      [] ext_type = 48 -> parse_tls_extension_oid_filters(i)
      [] ext_type = 49 ->
            parse_tls_extension_post_handshake_auth_content(i, ext_len)
      [] ext_type = 51 -> parse_tls_extension_key_share_content(i, ext_len)
      [] ext_type = 13172 -> parse_tls_extension_npn_content(i, ext_len)
      [] ext_type = 65281 -> parse_tls_extension_renegotiation_info_content(i)
      [] ext_type = 65486 -> parse_tls_extension_encrypted_server_name(i)
      [] OTHER -> unknown_content(i, ext_type, ext_len)

\* a faulty variant of parse_tls_extension: a body cut short is an error of the
\* extension, not a wait for more bytes
parse_tls_extension_complete(i) ==
    LET ext_type == be_u16(i) IN
    IF ~IsOk(ext_type) THEN ext_type
    ELSE LET ext_len == be_u16(ext_type.rest) IN
         IF ~IsOk(ext_len) THEN ext_len
         ELSE LET d == complete(take(ext_len.v, ext_len.rest)) IN
              map_parser(d, parse_tls_extension_with_type(
                                d.v, ext_type.v, ext_len.v))

\* a faulty variant of parse_tls_extension: the content decoder runs on all that
\* follows the header, and what it leaves is what remains
parse_tls_extension_unbounded(i) ==
    LET ext_type == be_u16(i) IN
    IF ~IsOk(ext_type) THEN ext_type
    ELSE LET ext_len == be_u16(ext_type.rest) IN
         IF ~IsOk(ext_len) THEN ext_len
         ELSE IF ~IsOk(take(ext_len.v, ext_len.rest)) THEN Incomplete
         ELSE parse_tls_extension_with_type(
                  ext_len.rest, ext_type.v, ext_len.v)

parse_tls_extension(i) ==
    LET ext_type == be_u16(i) IN
    IF ~IsOk(ext_type) THEN ext_type
    ELSE LET ext_len == be_u16(ext_type.rest) IN
         IF ~IsOk(ext_len) THEN ext_len
         ELSE LET d == take(ext_len.v, ext_len.rest) IN
              map_parser(d, parse_tls_extension_with_type(
                                d.v, ext_type.v, ext_len.v))

\* a faulty variant of many0_tls_extension: the newest value is put first
RECURSIVE many0_tls_extension_rev(_, _)
many0_tls_extension_rev(i, acc) ==
    LET r == complete(parse_tls_extension(i)) IN
    many0_step(i, acc, r, many0_tls_extension_rev(r.rest, <<r.v>> \o acc))

\* many0(complete(parse_tls_extension))
RECURSIVE many0_tls_extension(_, _)
many0_tls_extension(i, acc) ==
    LET r == complete(parse_tls_extension(i)) IN
    many0_step(i, acc, r, many0_tls_extension(r.rest, Append(acc, r.v)))

\* a faulty variant of parse_tls_extensions: the first envelope that does not
\* decode fails the sequence
RECURSIVE many1_strict(_, _)
many1_strict(i, acc) ==
    IF SLen(i) = 0 THEN Ok(i, acc)
    ELSE LET r == parse_tls_extension(i) IN
         IF ~IsOk(r) THEN r ELSE many1_strict(r.rest, Append(acc, r.v))

parse_tls_extensions_strict(i) == many1_strict(i, <<>>)

parse_tls_extensions(i) == many0_tls_extension(i, <<>>)

(***************************************************************************)
(* The standalone envelope parsers: each reads its own two type bytes with *)
(* tag, then the declared length and the body                              *)
(***************************************************************************)
\* streaming tag(t): the bytes present are compared first (a difference is
\* Error(Tag)), then a buffer shorter than t is Incomplete
tag(t, i) ==
    IF \E k \in 1..Len(t) : k <= SLen(i) /\ i.b[k] # t[k] THEN Error("Tag")
    ELSE IF SLen(i) < Len(t) THEN Incomplete
    ELSE Ok(Drop(i, Len(t)), Keep(i, Len(t)))

\* verify(p, f): r is p's result and holds is f of r's output (read only when
\* r is Ok)
verify(r, holds) ==
    IF ~IsOk(r) THEN r
    ELSE IF ~holds THEN Error("Verify")
    ELSE r

parse_tls_extension_sni(i) ==
    LET t == tag(<<0, 0>>, i) IN
    IF ~IsOk(t) THEN t
    ELSE LET r == length_data_be_u16(t.rest) IN
         map_parser(r, parse_tls_extension_sni_content(r.v))

parse_tls_extension_max_fragment_length(i) ==
    LET t == tag(<<0, 1>>, i) IN
    IF ~IsOk(t) THEN t
    ELSE LET r == length_data_be_u16(t.rest) IN
         map_parser(r, parse_tls_extension_max_fragment_length_content(r.v))

parse_tls_extension_status_request(i) ==
    LET t == tag(<<0, 5>>, i) IN
    IF ~IsOk(t) THEN t
    ELSE LET l == be_u16(t.rest) IN
         IF ~IsOk(l) THEN l
         ELSE LET d == take(l.v, l.rest) IN
              map_parser(d, parse_tls_extension_status_request_content(d.v, l.v))

parse_tls_extension_elliptic_curves(i) ==
    LET t == tag(<<0, 10>>, i) IN
    IF ~IsOk(t) THEN t
    ELSE LET r == length_data_be_u16(t.rest) IN
         map_parser(r, parse_tls_extension_elliptic_curves_content(r.v))

parse_tls_extension_ec_point_formats(i) ==
    LET t == tag(<<0, 10>>, i) IN
    IF ~IsOk(t) THEN t
    ELSE LET r == length_data_be_u16(t.rest) IN
         map_parser(r, parse_tls_extension_ec_point_formats_content(r.v))

parse_tls_extension_signature_algorithms(i) ==
    LET t == tag(<<0, 13>>, i) IN
    IF ~IsOk(t) THEN t
    ELSE LET r == length_data_be_u16(t.rest) IN
         map_parser(r, parse_tls_extension_signature_algorithms_content(r.v))

parse_tls_extension_heartbeat(i) ==
    LET t == tag(<<0, 13>>, i) IN
    IF ~IsOk(t) THEN t
    ELSE LET l == verify(be_u16(t.rest), be_u16(t.rest).v = 1) IN
         IF ~IsOk(l) THEN l
         ELSE LET d == take(l.v, l.rest) IN
              map_parser(d, parse_tls_extension_heartbeat_content(d.v))

parse_tls_extension_encrypt_then_mac(i) ==
    LET t == tag(<<0, 22>>, i) IN
    IF ~IsOk(t) THEN t
    ELSE LET l == be_u16(t.rest) IN
         IF ~IsOk(l) THEN l
         ELSE LET d == take(l.v, l.rest) IN
              map_parser(d, parse_tls_extension_encrypt_then_mac_content(d.v, l.v))

parse_tls_extension_extended_master_secret(i) ==
    LET t == tag(<<0, 23>>, i) IN
    IF ~IsOk(t) THEN t
    ELSE LET l == be_u16(t.rest) IN
         IF ~IsOk(l) THEN l
         ELSE LET d == take(l.v, l.rest) IN
              map_parser(d, parse_tls_extension_extended_master_secret_content(d.v, l.v))

parse_tls_extension_session_ticket(i) ==
    LET t == tag(<<0, 35>>, i) IN
    IF ~IsOk(t) THEN t
    ELSE LET l == be_u16(t.rest) IN
         IF ~IsOk(l) THEN l
         ELSE LET d == take(l.v, l.rest) IN
              map_parser(d, parse_tls_extension_session_ticket_content(d.v, l.v))

parse_tls_extension_key_share(i) ==
    LET t == tag(<<0, 51>>, i) IN
    IF ~IsOk(t) THEN t
    ELSE LET l == be_u16(t.rest) IN
         IF ~IsOk(l) THEN l
         ELSE LET d == take(l.v, l.rest) IN
              map_parser(d, parse_tls_extension_key_share_content(d.v, l.v))

parse_tls_extension_pre_shared_key(i) ==
    LET t == tag(<<0, 40>>, i) IN
    IF ~IsOk(t) THEN t
    ELSE LET l == be_u16(t.rest) IN
         IF ~IsOk(l) THEN l
         ELSE LET d == take(l.v, l.rest) IN
              map_parser(d, parse_tls_extension_pre_shared_key_content(d.v, l.v))

parse_tls_extension_early_data(i) ==
    LET t == tag(<<0, 42>>, i) IN
    IF ~IsOk(t) THEN t
    ELSE LET l == be_u16(t.rest) IN
         IF ~IsOk(l) THEN l
         ELSE LET d == take(l.v, l.rest) IN
              map_parser(d, parse_tls_extension_early_data_content(d.v, l.v))

parse_tls_extension_supported_versions(i) ==
    LET t == tag(<<0, 43>>, i) IN
    IF ~IsOk(t) THEN t
    ELSE LET l == be_u16(t.rest) IN
         IF ~IsOk(l) THEN l
         ELSE LET d == take(l.v, l.rest) IN
              map_parser(d, parse_tls_extension_supported_versions_content(d.v, l.v))

parse_tls_extension_cookie(i) ==
    LET t == tag(<<0, 44>>, i) IN
    IF ~IsOk(t) THEN t
    ELSE LET l == be_u16(t.rest) IN
         IF ~IsOk(l) THEN l
         ELSE LET d == take(l.v, l.rest) IN
              map_parser(d, parse_tls_extension_cookie_content(d.v, l.v))

parse_tls_extension_psk_key_exchange_modes(i) ==
    LET t == tag(<<0, 45>>, i) IN
    IF ~IsOk(t) THEN t
    ELSE LET l == be_u16(t.rest) IN
         IF ~IsOk(l) THEN l
         ELSE LET d == take(l.v, l.rest) IN
              map_parser(d, parse_tls_extension_psk_key_exchange_modes_content(d.v))

(***************************************************************************)
(* The buffers the caller hands in                                         *)
(***************************************************************************)
MaxPayload == 5

MaxExts == 2

\* byte values of the enumerated payloads: 0, a length of one, a length of
\* three
ByteVals == {0, 1, 3}

\* every dispatch-table code, GREASE codes (0x0a0a, 0x1a1a, 0xfafa), codes
\* that match the GREASE pattern in one byte only (0x0a00, 0x0a0b, 0x1a0b)
\* and codes without a decoder (0x0002, 0x0032, 0xffff)
TableCodes ==
    {0, 1, 5, 10, 11, 13, 15, 16, 18, 21, 22, 23, 28, 35, 40, 41, 42, 43, 44,
     45, 48, 49, 51, 13172, 65281, 65486}

GreaseCodes == {2570, 6682, 64250}

OtherCodes == {2, 50, 2560, 2571, 6667, 65535}

Codes == TableCodes \cup GreaseCodes \cup OtherCodes

SeqsUpTo(S, n) == UNION {[1..k -> S] : k \in 0..n}

\* the wire form of a u16
be16(x) == <<x \div 256, x % 256>>

\* an envelope's wire form: type, declared length, the bytes that follow
Envelope(c, l, p) == be16(c) \o be16(l) \o p

\* the examples of the specification's section 8 and a filled
\* EncryptedServerName
Samples ==
    {Envelope(43, 2, <<2, 3>>),
     Envelope(43, 5, <<2, 3, 4, 3, 3>>),
     Envelope(43, 5, <<2, 3, 4, 3, 3, 9>>),
     Envelope(0, 10, <<>>),
     Envelope(65486, 10, <<19, 1, 0, 29, 0, 0, 0, 0, 0, 0>>),
     Envelope(65486, 13, <<19, 1, 0, 29, 0, 1, 7, 0, 1, 8, 0, 1, 9, 5>>)}

\* one envelope whose declared length is at most one more than the bytes that
\* follow the header, so that the body is cut short, exact, or followed by
\* further bytes
IsEnvelope(b) ==
    \E c \in Codes, p \in SeqsUpTo(ByteVals, MaxPayload) :
        \E l \in 0..(Len(p) + 1) : b = Envelope(c, l, p)

\* a header cut short
IsShortHeader(b) ==
    \E c \in Codes, k \in 0..3 : b = SubSeq(Envelope(c, 0, <<>>), 1, k)

None == [k |-> "None"]

Init ==
    /\ \/ IsEnvelope(input)
       \/ IsShortHeader(input)
       \/ input \in Samples
    /\ pc = "idle"
    /\ out = None

\* a call of parse_tls_extension on the buffer
ParseExtension ==
    /\ pc = "idle"
    /\ out' = parse_tls_extension(Slice(0, input))
    /\ pc' = "extension"
    /\ UNCHANGED input

\* a call of parse_tls_extensions on the buffer
ParseExtensions ==
    /\ pc = "idle"
    /\ out' = parse_tls_extensions(Slice(0, input))
    /\ pc' = "extensions"
    /\ UNCHANGED input

Next == ParseExtension \/ ParseExtensions

Spec == Init /\ [][Next]_vars

\* A sequence of up to MaxExts envelopes, back to back: a marker type, a
\* one-byte type, a GREASE code and a code without a decoder, each with a
\* body cut short, exact, or followed by a further byte
SeqCodes == {1, 22, 2570, 2}

SeqPayloads == {<<>>, <<1>>, <<0, 1>>}

SeqEnvelopes ==
    UNION {{Envelope(c, l, p) : c \in SeqCodes, l \in 0..(Len(p) + 1)} :
           p \in SeqPayloads}

InitSeq ==
    /\ \E k \in 0..MaxExts :
           \E f \in [1..k -> SeqEnvelopes] : input = Flatten(f)
    /\ pc = "idle"
    /\ out = None

SpecSeq == InitSeq /\ [][Next]_vars

\* The buffers handed to the standalone parsers: the type codes their tags
\* name (0x0000 .. 0x0033), the registry codes of the variants they return
\* where the two differ (0x000b, 0x000f, 0x0029), and a header cut short
StandaloneCodes ==
    {0, 1, 5, 10, 11, 13, 15, 22, 23, 35, 40, 41, 42, 43, 44, 45, 51}

StandaloneBytes == {0, 1}

InitStandalone ==
    /\ \/ \E c \in StandaloneCodes, p \in SeqsUpTo(StandaloneBytes, MaxPayload) :
              \E l \in 0..(Len(p) + 1) : input = Envelope(c, l, p)
       \/ \E c \in StandaloneCodes, k \in 0..3 :
              input = SubSeq(Envelope(c, 0, <<>>), 1, k)
    /\ pc = "idle"
    /\ out = None

\* a call of parse_tls_extension_sni on the buffer
ParseSni ==
    /\ pc = "idle"
    /\ out' = parse_tls_extension_sni(Slice(0, input))
    /\ pc' = "sni"
    /\ UNCHANGED input

\* a call of parse_tls_extension_max_fragment_length on the buffer
ParseMaxFragmentLength ==
    /\ pc = "idle"
    /\ out' = parse_tls_extension_max_fragment_length(Slice(0, input))
    /\ pc' = "max_fragment_length"
    /\ UNCHANGED input

\* a call of parse_tls_extension_status_request on the buffer
ParseStatusRequest ==
    /\ pc = "idle"
    /\ out' = parse_tls_extension_status_request(Slice(0, input))
    /\ pc' = "status_request"
    /\ UNCHANGED input

\* a call of parse_tls_extension_elliptic_curves on the buffer
ParseEllipticCurves ==
    /\ pc = "idle"
    /\ out' = parse_tls_extension_elliptic_curves(Slice(0, input))
    /\ pc' = "elliptic_curves"
    /\ UNCHANGED input

\* a call of parse_tls_extension_ec_point_formats on the buffer
ParseEcPointFormats ==
    /\ pc = "idle"
    /\ out' = parse_tls_extension_ec_point_formats(Slice(0, input))
    /\ pc' = "ec_point_formats"
    /\ UNCHANGED input

\* a call of parse_tls_extension_signature_algorithms on the buffer
ParseSignatureAlgorithms ==
    /\ pc = "idle"
    /\ out' = parse_tls_extension_signature_algorithms(Slice(0, input))
    /\ pc' = "signature_algorithms"
    /\ UNCHANGED input

\* a call of parse_tls_extension_heartbeat on the buffer
ParseHeartbeat ==
    /\ pc = "idle"
    /\ out' = parse_tls_extension_heartbeat(Slice(0, input))
    /\ pc' = "heartbeat"
    /\ UNCHANGED input

\* a call of parse_tls_extension_encrypt_then_mac on the buffer
ParseEncryptThenMac ==
    /\ pc = "idle"
    /\ out' = parse_tls_extension_encrypt_then_mac(Slice(0, input))
    /\ pc' = "encrypt_then_mac"
    /\ UNCHANGED input

\* a call of parse_tls_extension_extended_master_secret on the buffer
ParseExtendedMasterSecret ==
    /\ pc = "idle"
    /\ out' = parse_tls_extension_extended_master_secret(Slice(0, input))
    /\ pc' = "extended_master_secret"
    /\ UNCHANGED input

\* a call of parse_tls_extension_session_ticket on the buffer
ParseSessionTicket ==
    /\ pc = "idle"
    /\ out' = parse_tls_extension_session_ticket(Slice(0, input))
    /\ pc' = "session_ticket"
    /\ UNCHANGED input

\* a call of parse_tls_extension_key_share on the buffer
ParseKeyShare ==
    /\ pc = "idle"
    /\ out' = parse_tls_extension_key_share(Slice(0, input))
    /\ pc' = "key_share"
    /\ UNCHANGED input

\* a call of parse_tls_extension_pre_shared_key on the buffer
ParsePreSharedKey ==
    /\ pc = "idle"
    /\ out' = parse_tls_extension_pre_shared_key(Slice(0, input))
    /\ pc' = "pre_shared_key"
    /\ UNCHANGED input

\* a call of parse_tls_extension_early_data on the buffer
ParseEarlyData ==
    /\ pc = "idle"
    /\ out' = parse_tls_extension_early_data(Slice(0, input))
    /\ pc' = "early_data"
    /\ UNCHANGED input

\* a call of parse_tls_extension_supported_versions on the buffer
ParseSupportedVersions ==
    /\ pc = "idle"
    /\ out' = parse_tls_extension_supported_versions(Slice(0, input))
    /\ pc' = "supported_versions"
    /\ UNCHANGED input

\* a call of parse_tls_extension_cookie on the buffer
ParseCookie ==
    /\ pc = "idle"
    /\ out' = parse_tls_extension_cookie(Slice(0, input))
    /\ pc' = "cookie"
    /\ UNCHANGED input

\* a call of parse_tls_extension_psk_key_exchange_modes on the buffer
ParsePskKeyExchangeModes ==
    /\ pc = "idle"
    /\ out' = parse_tls_extension_psk_key_exchange_modes(Slice(0, input))
    /\ pc' = "psk_key_exchange_modes"
    /\ UNCHANGED input

StandaloneNames ==
    {"sni",
     "max_fragment_length",
     "status_request",
     "elliptic_curves",
     "ec_point_formats",
     "signature_algorithms",
     "heartbeat",
     "encrypt_then_mac",
     "extended_master_secret",
     "session_ticket",
     "key_share",
     "pre_shared_key",
     "early_data",
     "supported_versions",
     "cookie",
     "psk_key_exchange_modes"}

NextStandalone ==
    \/ ParseExtension
    \/ ParseSni
    \/ ParseMaxFragmentLength
    \/ ParseStatusRequest
    \/ ParseEllipticCurves
    \/ ParseEcPointFormats
    \/ ParseSignatureAlgorithms
    \/ ParseHeartbeat
    \/ ParseEncryptThenMac
    \/ ParseExtendedMasterSecret
    \/ ParseSessionTicket
    \/ ParseKeyShare
    \/ ParsePreSharedKey
    \/ ParseEarlyData
    \/ ParseSupportedVersions
    \/ ParseCookie
    \/ ParsePskKeyExchangeModes

SpecStandalone == InitStandalone /\ [][NextStandalone]_vars

(***************************************************************************)
(* What the claims speak of: the header as it stands on the wire           *)
(***************************************************************************)
HasHeader == Len(input) >= 4

WireType == input[1] * 256 + input[2]

WireLen == input[3] * 256 + input[4]

\* the declared body is fully present
BodyPresent == HasHeader /\ Len(input) >= 4 + WireLen

Body == SubSeq(input, 5, 4 + WireLen)

After == SubSeq(input, 5 + WireLen, Len(input))

\* (code & 0x0f0f) == 0x0a0a, by hexadecimal digits
GreasePattern(c) == (c \div 256) % 16 = 10 /\ c % 16 = 10

Called == pc = "extension"

\* a value without the offsets of its slices
Strip(v) == [tag |-> v.tag, n |-> v.n, s |-> [k \in DOMAIN v.s |-> v.s[k].b]]

(***************************************************************************)
(* C2: on an envelope whose declared body is fully present, a type code    *)
(* with (code & 0x0f0f) = 0x0a0a always decodes as Grease(code, body),     *)
(* the body being exactly the declared-length bytes; no other code ever    *)
(* decodes as Grease.                                                      *)
(***************************************************************************)
C2_GreasePrecedence ==
    Called =>
        /\ (BodyPresent /\ GreasePattern(WireType)) =>
               /\ IsOk(out)
               /\ out.v.tag = "Grease"
               /\ out.v.n = <<WireType>>
               /\ Len(out.v.s) = 1
               /\ out.v.s[1].b = Body
        /\ (IsOk(out) /\ out.v.tag = "Grease") => GreasePattern(WireType)

C2_Witness ==
    /\ Called
    /\ BodyPresent
    /\ WireType = Grease
    /\ WireLen = 3
    /\ IsOk(out)
    /\ out.v.tag = "Grease"

(***************************************************************************)
(* C3: EncryptThenMac, ExtendedMasterSecret, PostHandshakeAuth and         *)
(* NextProtocolNegotiation with the body fully present: declared length 0  *)
(* gives the payload-less marker of the type, every declared length > 0    *)
(* gives an Error of kind Verify.                                          *)
(***************************************************************************)
MarkerOf(c) ==
    CASE c = EncryptThenMac -> "EncryptThenMac"
      [] c = ExtendedMasterSecret -> "ExtendedMasterSecret"
      [] c = PostHandshakeAuth -> "PostHandshakeAuth"
      [] c = NextProtocolNegotiation -> "NextProtocolNegotiation"

MarkerCodes ==
    {EncryptThenMac, ExtendedMasterSecret, PostHandshakeAuth,
     NextProtocolNegotiation}

C3_MarkerLength ==
    (Called /\ BodyPresent /\ WireType \in MarkerCodes) =>
        IF WireLen = 0
        THEN IsOk(out) /\ out.v = Ext(MarkerOf(WireType), <<>>, <<>>)
        ELSE out = Error("Verify")

C3_Witness ==
    /\ Called
    /\ BodyPresent
    /\ WireType = NextProtocolNegotiation
    /\ WireLen = 2
    /\ out = Error("Verify")

(***************************************************************************)
(* C4: SupportedVersions with declared length 0 fails with a verification  *)
(* failure, not with Incomplete and not with success.                      *)
(***************************************************************************)
C4_SupportedVersionsEmpty ==
    (Called /\ HasHeader /\ WireType = SupportedVersions /\ WireLen = 0) =>
        out = Error("Verify")

(***************************************************************************)
(* C5: SupportedVersions with the body fully present: a declared length    *)
(* of 2 gives the one version made of the two body bytes, big-endian; any  *)
(* other nonzero declared length skips the first body byte and gives what  *)
(* the version-list collaborator makes of the remaining declared-length-1  *)
(* bytes, the versions in wire order.                                      *)
(***************************************************************************)
C5_SupportedVersions ==
    (Called /\ BodyPresent /\ WireType = SupportedVersions /\ WireLen > 0) =>
        IF WireLen = 2
        THEN /\ IsOk(out)
             /\ out.v = Ext("SupportedVersions",
                            <<Body[1] * 256 + Body[2]>>, <<>>)
        ELSE LET l == parse_tls_versions(Slice(5, Tail(Body))) IN
             IF IsOk(l)
             THEN /\ IsOk(out)
                  /\ out.v = Ext("SupportedVersions", l.v, <<>>)
                  /\ Len(out.v.n) * 2 = WireLen - 1
                  /\ \A k \in 1..Len(out.v.n) :
                         out.v.n[k] = Body[2 * k] * 256 + Body[2 * k + 1]
             ELSE out = l

C5_Witness ==
    /\ Called
    /\ input = Envelope(43, 5, <<2, 3, 4, 3, 3>>)
    /\ IsOk(out)
    /\ out.v.n = <<772, 771>>

(***************************************************************************)
(* C6: a buffer with fewer than 4 header bytes, or whose declared length   *)
(* exceeds the bytes after the header, gives Incomplete for every type     *)
(* code.                                                                   *)
(***************************************************************************)
C6_TruncatedIsIncomplete ==
    (Called /\ (~HasHeader \/ ~BodyPresent)) => out = Incomplete

C6_Witness ==
    /\ Called
    /\ HasHeader
    /\ WireType = NextProtocolNegotiation
    /\ WireLen = 3
    /\ Len(input) = 6
    /\ out = Incomplete

(***************************************************************************)
(* C7: whenever parse_tls_extension succeeds on an envelope of declared    *)
(* length L, what remains is the input from offset 4+L on, every slice of  *)
(* the value lies in the body [4, 4+L) and holds the input's bytes there,  *)
(* and the bytes from 4+L on have no influence on the value.               *)
(***************************************************************************)
C7_Framing ==
    (Called /\ IsOk(out)) =>
        /\ BodyPresent
        /\ out.rest = Slice(4 + WireLen, After)
        /\ \A k \in DOMAIN out.v.s :
               /\ 4 <= out.v.s[k].off
               /\ out.v.s[k].off + Len(out.v.s[k].b) <= 4 + WireLen
               /\ out.v.s[k].b =
                      SubSeq(input, out.v.s[k].off + 1,
                             out.v.s[k].off + Len(out.v.s[k].b))
        /\ LET alone == parse_tls_extension(
                            Slice(0, SubSeq(input, 1, 4 + WireLen)))
           IN  IsOk(alone) /\ alone.v = out.v

\* the decoder used one byte of a two-byte body, and a byte follows the body
C7_Witness ==
    /\ Called
    /\ IsOk(out)
    /\ WireType = Heartbeat
    /\ WireLen = 2
    /\ Len(input) = 7
    /\ out.rest.off = 6

(***************************************************************************)
(* C8: a value returned for type code c that is neither Grease nor         *)
(* Unknown projects to c; an Unknown(x, _) has x = c.                      *)
(***************************************************************************)
C8_Projection ==
    (Called /\ IsOk(out)) =>
        /\ out.v.tag \notin {"Grease", "Unknown"} => TypeOf(out.v) = WireType
        /\ out.v.tag = "Unknown" => out.v.n[1] = WireType

C8_Witness ==
    /\ Called
    /\ IsOk(out)
    /\ out.v.tag = "KeyShare"
    /\ WireType = KeyShare
    /\ WireLen = 2

(***************************************************************************)
(* C10: a type code that neither matches the GREASE pattern nor is a       *)
(* dispatch-table code, with the body fully present, always decodes as     *)
(* Unknown(code, body), the body being exactly the declared-length bytes,  *)
(* a length of 0 included.                                                 *)
(***************************************************************************)
C10_UnknownNeverFails ==
    (Called /\ BodyPresent /\ ~GreasePattern(WireType)
        /\ WireType \notin TableCodes) =>
        /\ IsOk(out)
        /\ Strip(out.v) = Ext("Unknown", <<WireType>>, <<Body>>)

C10_Witness ==
    /\ Called
    /\ BodyPresent
    /\ WireType = 2571
    /\ WireLen = 0
    /\ IsOk(out)
    /\ out.v.tag = "Unknown"

(***************************************************************************)
(* The sequence parser's claims: the envelopes of the input, one after     *)
(* the other                                                               *)
(***************************************************************************)
CalledSeq == pc = "extensions"

\* The walk over the input envelope by envelope: the values decoded before
\* the first envelope that does not decode, where that envelope starts, and
\* what its decode gives (None when every envelope decodes)
RECURSIVE Walk(_, _)
Walk(i, acc) ==
    IF SLen(i) = 0 THEN [vals |-> acc, at |-> i, bad |-> None]
    ELSE LET r == parse_tls_extension(i) IN
         IF ~IsOk(r) THEN [vals |-> acc, at |-> i, bad |-> r]
         ELSE Walk(r.rest, Append(acc, r.v))

Walked == Walk(Slice(0, input), <<>>)

RECURSIVE Frames(_)
Frames(b) ==
    IF b = <<>> THEN [whole |-> TRUE, list |-> <<>>]
    ELSE IF Len(b) < 4 \/ Len(b) < 4 + b[3] * 256 + b[4]
    THEN [whole |-> FALSE, list |-> <<>>]
    ELSE LET n == 4 + b[3] * 256 + b[4]
             more == Frames(SubSeq(b, n + 1, Len(b)))
         IN  [whole |-> more.whole, list |-> <<SubSeq(b, 1, n)>> \o more.list]

Alone(e) == parse_tls_extension(Slice(0, e))

C9_SequenceOfEnvelopes ==
    LET fr == Frames(input).list IN
    (CalledSeq /\ Frames(input).whole
        /\ \A j \in 1..Len(fr) : IsOk(Alone(fr[j]))) =>
        /\ IsOk(out)
        /\ Len(out.v) = Len(fr)
        /\ \A j \in 1..Len(fr) : Strip(out.v[j]) = Strip(Alone(fr[j]).v)
        /\ out.rest.b = <<>>
        /\ (input = <<>> => out.v = <<>>)

\* the same extension twice: both are kept
C9_Witness ==
    /\ CalledSeq
    /\ Frames(input).whole
    /\ IsOk(out)
    /\ Len(out.v) = 2
    /\ out.rest.b = <<>>
    /\ out.v[1].tag = "MaxFragmentLength"
    /\ Strip(out.v[2]) = Strip(out.v[1])

(***************************************************************************)
(* C11: Heartbeat and MaxFragmentLength with the body fully present decode *)
(* successfully only when the declared length is exactly 1; a declared     *)
(* length of 0, or of 2 and more, is rejected rather than decoded from the *)
(* first body byte.                                                        *)
(***************************************************************************)
C11_SingleByteLength ==
    (Called /\ BodyPresent /\ WireType \in {Heartbeat, MaxFragmentLength}) =>
        (IsOk(out) <=> WireLen = 1)

(***************************************************************************)
(* C12: on a buffer that holds the whole envelope (at least 4+L bytes) the *)
(* result is never Incomplete; when a fixed-size field or an inner length  *)
(* prefix needs more bytes than the L-byte body holds (EarlyData with L in *)
(* 1..3, ServerName whose list length exceeds L-2, RecordSizeLimit with    *)
(* L < 2) the outcome is a verification failure.                           *)
(***************************************************************************)
\* a field of the body needs more bytes than the body holds
BodyTooShort ==
    \/ WireType = EarlyData /\ WireLen \in 1..3
    \/ WireType = RecordSizeLimit /\ WireLen < 2
    \/ WireType = ServerName
          /\ (WireLen < 2 \/ Body[1] * 256 + Body[2] > WireLen - 2)

C12_WholeEnvelopeNeverIncomplete ==
    (Called /\ BodyPresent) =>
        /\ out # Incomplete
        /\ BodyTooShort => out = Error("Verify")
(***************************************************************************)
(* C13: a standalone typed envelope parser accepts an envelope only when   *)
(* its two type bytes are the registry code of the variant it returns: for *)
(* every successful result v the type code of v is the type code on the    *)
(* wire, and parse_tls_extension gives the same result on that input.      *)
(***************************************************************************)
C13_StandaloneMatchesRegistry ==
    (pc \in StandaloneNames /\ IsOk(out)) =>
        /\ TypeOf(out.v) = WireType
        /\ out = parse_tls_extension(Slice(0, input))

====
